---- MODULE Spec2Model ----
(***************************************************************************)
(* Habit tracker of src/app.py: the streak calculation calculate_streaks   *)
(* over the habits_log collection, and the handlers of                     *)
(* render_habits_and_tasks that write habits_config and habits_log.        *)
(*                                                                         *)
(* A date key (a Firestore document id of habits_log) is a sequence of     *)
(* one-character strings; a date value (datetime.date) is its proleptic    *)
(* Gregorian ordinal, so that date subtraction and timedelta(days=1) are   *)
(* integer arithmetic while strptime / strftime are real conversions.      *)
(***************************************************************************)
EXTENDS Integers, Sequences, FiniteSets, TLC

VARIABLES habits_config, habits_log, clock, result

vars == <<habits_config, habits_log, clock, result>>

-----------------------------------------------------------------------------
(* Bounds of the model *)

\* number of consecutive calendar days whose keys may occur in a stored log
NumDays == 4
\* largest number of documents in a log handed to calculate_streaks
MaxEntries == 3
\* number of times the clock passes midnight while the page is in use
MaxTicks == 2

Habits == {"read", "gym"}

-----------------------------------------------------------------------------
(* Calendar arithmetic of datetime.date *)

IsLeap(y) == y % 4 = 0 /\ (y % 100 # 0 \/ y % 400 = 0)

DaysInMonth(y, m) ==
    IF m = 2 THEN (IF IsLeap(y) THEN 29 ELSE 28)
    ELSE IF m \in {4, 6, 9, 11} THEN 30 ELSE 31

DaysBeforeYear(y) ==
    (y - 1) * 365 + ((y - 1) \div 4) - ((y - 1) \div 100) + ((y - 1) \div 400)

RECURSIVE DaysBeforeMonth(_, _)
DaysBeforeMonth(y, m) ==
    IF m = 1 THEN 0 ELSE DaysBeforeMonth(y, m - 1) + DaysInMonth(y, m - 1)

\* date(y, m, d).toordinal()
ToOrdinal(y, m, d) == DaysBeforeYear(y) + DaysBeforeMonth(y, m) + d

\* the years the clock and the stored keys of the model fall in
Years == 2023 .. 2025

YearOf(n) == CHOOSE y \in Years : DaysBeforeYear(y) < n /\ n <= DaysBeforeYear(y + 1)

MonthOf(n) ==
    LET y == YearOf(n)
        r == n - DaysBeforeYear(y)
    IN  CHOOSE m \in 1 .. 12 :
            DaysBeforeMonth(y, m) < r /\ r <= DaysBeforeMonth(y, m) + DaysInMonth(y, m)

DayOf(n) == n - DaysBeforeYear(YearOf(n)) - DaysBeforeMonth(YearOf(n), MonthOf(n))

-----------------------------------------------------------------------------
(* strftime("%Y-%m-%d") and strptime(_, "%Y-%m-%d") *)

Digits == <<"0", "1", "2", "3", "4", "5", "6", "7", "8", "9">>

IsDigit(c) == \E i \in 1 .. 10 : Digits[i] = c

DigitVal(c) == (CHOOSE i \in 1 .. 10 : Digits[i] = c) - 1

\* zero-padded decimal of width 2 and of width 4
Pad2(n) == <<Digits[((n \div 10) % 10) + 1], Digits[(n % 10) + 1]>>

Pad4(n) == <<Digits[((n \div 1000) % 10) + 1], Digits[((n \div 100) % 10) + 1]>> \o Pad2(n)

\* date.strftime("%Y-%m-%d")
Strftime(n) == Pad4(YearOf(n)) \o <<"-">> \o Pad2(MonthOf(n)) \o <<"-">> \o Pad2(DayOf(n))

\* the directive %m matches 1[0-2]|0[1-9]|[1-9]
MatchesMonth(tok) ==
    \/ Len(tok) = 1 /\ IsDigit(tok[1]) /\ tok[1] # "0"
    \/ Len(tok) = 2 /\ tok[1] = "0" /\ IsDigit(tok[2]) /\ tok[2] # "0"
    \/ Len(tok) = 2 /\ tok[1] = "1" /\ tok[2] \in {"0", "1", "2"}

\* the directive %d matches 3[0-1]|[1-2]\d|0[1-9]|[1-9]| [1-9]
MatchesDay(tok) ==
    \/ Len(tok) = 1 /\ IsDigit(tok[1]) /\ tok[1] # "0"
    \/ Len(tok) = 2 /\ tok[1] \in {"0", " "} /\ IsDigit(tok[2]) /\ tok[2] # "0"
    \/ Len(tok) = 2 /\ tok[1] \in {"1", "2"} /\ IsDigit(tok[2])
    \/ Len(tok) = 2 /\ tok[1] = "3" /\ tok[2] \in {"0", "1"}

RECURSIVE TokenVal(_)
TokenVal(tok) ==
    IF Len(tok) = 0 THEN 0
    ELSE LET c == tok[Len(tok)]
         IN  10 * TokenVal(SubSeq(tok, 1, Len(tok) - 1)) + (IF IsDigit(c) THEN DigitVal(c) ELSE 0)

\* position of the hyphen that ends the month field, 0 when there is none
MonthEnd(key) ==
    IF Len(key) >= 7 /\ key[7] = "-" THEN 7
    ELSE IF Len(key) >= 8 /\ key[8] = "-" THEN 8 ELSE 0

\* the whole key matches \d\d\d\d-(month)-(day)
MatchesFormat(key) ==
    /\ Len(key) >= 8
    /\ \A i \in 1 .. 4 : IsDigit(key[i])
    /\ key[5] = "-"
    /\ MonthEnd(key) # 0
    /\ MatchesMonth(SubSeq(key, 6, MonthEnd(key) - 1))
    /\ MatchesDay(SubSeq(key, MonthEnd(key) + 1, Len(key)))

KeyYear(key) == TokenVal(SubSeq(key, 1, 4))

KeyMonth(key) == TokenVal(SubSeq(key, 6, MonthEnd(key) - 1))

KeyDay(key) == TokenVal(SubSeq(key, MonthEnd(key) + 1, Len(key)))

\* strptime returns a date: a ValueError is raised when the key does not match
\* the format or names no day of the calendar
Parseable(key) ==
    /\ MatchesFormat(key)
    /\ KeyYear(key) >= 1
    /\ KeyDay(key) <= DaysInMonth(KeyYear(key), KeyMonth(key))

\* datetime.strptime(key, "%Y-%m-%d").date(), for a parseable key
Strptime(key) == ToOrdinal(KeyYear(key), KeyMonth(key), KeyDay(key))

-----------------------------------------------------------------------------
(* The dates and the document ids of the model *)

\* the first day of the model: 2024-02-28, so that the days that follow cross
\* the leap day and the end of the month
FirstDay == ToOrdinal(2024, 2, 28)

WindowDays == FirstDay .. FirstDay + NumDays - 1

\* keys that strftime does not write: 2024-3-1 parses to the day of 2024-03-01,
\* 2024-02-30 matches the format and names no day
UnpaddedKey == <<"2", "0", "2", "4", "-", "3", "-", "1">>

NoSuchDayKey == <<"2", "0", "2", "4", "-", "0", "2", "-", "3", "0">>

Keys == {Strftime(d) : d \in WindowDays} \cup {UnpaddedKey, NoSuchDayKey}

\* the keys the page writes
AppKeys == {Strftime(d) : d \in FirstDay .. FirstDay + MaxTicks}

\* strptime and strftime on the keys and the days of the model, evaluated once
ParsedKeys == {k \in Keys \cup AppKeys : Parseable(k)}

DateOfKey == [k \in ParsedKeys |-> Strptime(k)]

KeyOfDate == [d \in FirstDay .. FirstDay + MaxTicks |-> Strftime(d)]

-----------------------------------------------------------------------------
(* calculate_streaks *)

\* what a call does: it returns a pair or raises
Returned(current_streak, longest_streak) ==
    [exception |-> "none", value |-> <<current_streak, longest_streak>>]

Raised(e) == [exception |-> e, value |-> <<>>]

\* a mutation of Completed: a flag that is present counts, whatever its value
CompletedIfPresent(data, habit_name) == habit_name \in DOMAIN data

\* data.get(habit_name) is truthy
Completed(data, habit_name) == habit_name \in DOMAIN data /\ data[habit_name]

\* the entries whose date the comprehension parses: the condition is evaluated
\* before the element expression
ParsedEntries(items, habit_name) ==
    {i \in 1 .. Len(items) : Completed(items[i].data, habit_name)}

\* a mutation of ComprehensionRaises: every key is parsed, completed or not
RaisesOnAnyKey(items, habit_name) ==
    \E i \in 1 .. Len(items) : items[i].date \notin ParsedKeys

\* the comprehension raises strptime's ValueError at the first such entry
ComprehensionRaises(items, habit_name) ==
    \E i \in ParsedEntries(items, habit_name) : items[i].date \notin ParsedKeys

\* the set dates_completed, listed in the order its elements were first added
ElementsOf(seq) == {seq[i] : i \in 1 .. Len(seq)}

\* a date is added to a set: an element it holds already is not added again
AddDate(added, date) == IF date \in ElementsOf(added) THEN added ELSE Append(added, date)

RECURSIVE DatesAdded(_, _, _)
DatesAdded(items, habit_name, i) ==
    IF i = 0 THEN <<>>
    ELSE IF Completed(items[i].data, habit_name)
    THEN AddDate(DatesAdded(items, habit_name, i - 1), DateOfKey[items[i].date])
    ELSE DatesAdded(items, habit_name, i - 1)

\* insertion of a date into an ascending list
RECURSIVE Insert(_, _)
Insert(sorted, d) ==
    IF Len(sorted) = 0 THEN <<d>>
    ELSE IF d <= Head(sorted) THEN <<d>> \o sorted
    ELSE <<Head(sorted)>> \o Insert(Tail(sorted), d)

\* a mutation of Sorted: the list is left in the order of iteration
Unsorted(dates) == dates

\* sorted(list(dates_completed))
RECURSIVE Sorted(_)
Sorted(dates) ==
    IF Len(dates) = 0 THEN <<>>
    ELSE Insert(Sorted(SubSeq(dates, 1, Len(dates) - 1)), dates[Len(dates)])

\* a mutation of Max: the length of the latest run is kept
Latest(a, b) == b

\* max(longest_streak, current_longest_streak)
Max(a, b) == IF a >= b THEN a ELSE b

\* a mutation of RunStep: any later date continues the run
RunStepAnyGap(previous, date, current_longest_streak) ==
    IF date - previous >= 1 THEN current_longest_streak + 1 ELSE 1

\* the body of the loop over sorted_dates: the run goes on or starts again
RunStep(previous, date, current_longest_streak) ==
    IF date - previous = 1 THEN current_longest_streak + 1 ELSE 1

\* for i in range(1, len(sorted_dates)), with i counted from 1
RECURSIVE ScanFrom(_, _, _, _)
ScanNext(sorted_dates, i, current_longest_streak, longest_streak) ==
    ScanFrom(sorted_dates, i + 1, current_longest_streak,
             Max(longest_streak, current_longest_streak))

ScanFrom(sorted_dates, i, current_longest_streak, longest_streak) ==
    IF i > Len(sorted_dates) THEN longest_streak
    ELSE ScanNext(sorted_dates, i,
                  RunStep(sorted_dates[i - 1], sorted_dates[i], current_longest_streak),
                  longest_streak)

\* a mutation of LongestStreak: longest_streak is left at 0 before the loop
LongestFromZero(sorted_dates) ==
    IF Len(sorted_dates) = 0 THEN 0 ELSE ScanFrom(sorted_dates, 2, 1, 0)

\* longest_streak = 0, then 1 and the loop when sorted_dates is not empty
LongestStreak(sorted_dates) ==
    IF Len(sorted_dates) = 0 THEN 0 ELSE ScanFrom(sorted_dates, 2, 1, 1)

\* a mutation of HasStart: only a habit completed today has a current streak
HasStartToday(dates_completed, today) == today \in dates_completed

\* the count starts at today or at yesterday, or the call returns 0 at once
HasStart(dates_completed, today) ==
    today \in dates_completed \/ today - 1 \in dates_completed

\* a mutation of StartDate: the count always starts at today
StartToday(dates_completed, today) == today

StartDate(dates_completed, today) ==
    IF today \notin dates_completed THEN today - 1 ELSE today

\* while check_date in dates_completed
RECURSIVE CountBack(_, _)
CountBack(dates_completed, check_date) ==
    IF check_date \in dates_completed
    THEN 1 + CountBack(dates_completed, check_date - 1)
    ELSE 0

\* the rest of calculate_streaks, once dates_completed is built; added lists
\* its elements in the order list(dates_completed) is taken to give
StreaksFrom(dates_completed, added, today) ==
    IF dates_completed = {} THEN Returned(0, 0)
    ELSE IF ~HasStart(dates_completed, today)
    THEN Returned(0, LongestStreak(Sorted(added)))
    ELSE Returned(CountBack(dates_completed, StartDate(dates_completed, today)),
                  LongestStreak(Sorted(added)))

StreaksOfDates(added, today) == StreaksFrom(ElementsOf(added), added, today)

\* calculate_streaks(habit_logs, habit_name), with the date datetime.now() gives
calculate_streaks(habit_logs, habit_name, today) ==
    IF Len(habit_logs) = 0 THEN Returned(0, 0)
    ELSE IF ComprehensionRaises(habit_logs, habit_name) THEN Raised("ValueError")
    ELSE StreaksOfDates(DatesAdded(habit_logs, habit_name, Len(habit_logs)), today)

\* the record of a call: its arguments, the clock it read and what it did
Call(habit_logs, habit_name, today) ==
    [habit_logs |-> habit_logs, habit_name |-> habit_name, today |-> today,
     outcome |-> calculate_streaks(habit_logs, habit_name, today)]

NoCall == [habit_logs |-> <<>>, habit_name |-> "", today |-> 0, outcome |-> Raised("none")]

-----------------------------------------------------------------------------
(* The state: the two Firestore collections of a user, the clock, and the *)
(* last call of calculate_streaks                                          *)

\* a document of habits_log maps habit names to flags
DocsOver(names) == UNION {[D -> BOOLEAN] : D \in SUBSET names}

EmptyDoc == [g \in {} |-> FALSE]

NoDocs == [k \in {} |-> EmptyDoc]

\* the logs a store may hold when calculate_streaks is studied on its own
LogsOver(keys, names) ==
    UNION {[K -> DocsOver(names)] : K \in {S \in SUBSET keys : Cardinality(S) <= MaxEntries}}

-----------------------------------------------------------------------------
(* get_all_logs: the documents of habits_log, in the order of the stream *)

\* code points of the characters of the keys, in increasing order
CharOrder == <<" ", "-", "/">> \o Digits

CharRank(c) == CHOOSE i \in 1 .. Len(CharOrder) : CharOrder[i] = c

\* document ids are streamed in ascending lexicographic order
RECURSIVE KeyLess(_, _)
KeyLess(a, b) ==
    IF Len(b) = 0 THEN FALSE
    ELSE IF Len(a) = 0 THEN TRUE
    ELSE IF a[1] # b[1] THEN CharRank(a[1]) < CharRank(b[1])
    ELSE KeyLess(Tail(a), Tail(b))

\* the least of a set of document ids
FirstKey(ids) == CHOOSE k \in ids : \A o \in ids \ {k} : KeyLess(k, o)

RECURSIVE Ascending(_)
AscendingFrom(ids, k) == <<k>> \o Ascending(ids \ {k})

Ascending(ids) == IF ids = {} THEN <<>> ELSE AscendingFrom(ids, FirstKey(ids))

\* every document id of the model, in the order of a stream
StreamOrder == Ascending(Keys \cup AppKeys)

IdsOf(docs) == SelectSeq(StreamOrder, LAMBDA k : k \in DOMAIN docs)

EntriesOf(docs, ids) == [i \in 1 .. Len(ids) |-> [date |-> ids[i], data |-> docs[ids[i]]]]

\* {doc.id: doc.to_dict() for doc in logs_ref}: a dict keeps the order of insertion
get_all_logs(docs) == EntriesOf(docs, IdsOf(docs))

-----------------------------------------------------------------------------
(* render_habits_and_tasks *)

\* the analysis section of a run of the script: the streaks of the habit chosen
\* in the selectbox are computed from all the logs; with no habit the script
\* returns before it
Analysis(config, docs, selected_habit) ==
    IF config = {} THEN result
    ELSE Call(get_all_logs(docs), selected_habit, clock)

\* a mutation of SetMerge: set() without merge replaces the document
SetReplace(docs, id, field, value) ==
    [k \in DOMAIN docs \cup {id} |-> IF k = id THEN [g \in {field} |-> value] ELSE docs[k]]

\* today_log_ref.set({habit: is_done}, merge=True)
SetMerge(docs, id, field, value) ==
    LET old == IF id \in DOMAIN docs THEN docs[id] ELSE EmptyDoc
    IN  [k \in DOMAIN docs \cup {id} |->
            IF k = id
            THEN [g \in DOMAIN old \cup {field} |-> IF g = field THEN value ELSE old[g]]
            ELSE docs[k]]

\* a mutation of DeleteHabit: the flags of the habit are purged from the logs
DeleteHabitAndFlags(config, docs, habit) ==
    [config |-> config \ {habit},
     docs |-> [k \in DOMAIN docs |->
                 [g \in DOMAIN docs[k] \ {habit} |-> docs[k][g]]]]

\* habits_ref.document(habit_to_delete).delete()
DeleteHabit(config, docs, habit) == [config |-> config \ {habit}, docs |-> docs]

\* the form "Adicionar Hábito", then the run that st.rerun() starts
AddHabit(new_habit, selected_habit) ==
    /\ new_habit \notin habits_config
    /\ habits_config' = habits_config \cup {new_habit}
    /\ selected_habit \in habits_config'
    /\ result' = Analysis(habits_config', habits_log, selected_habit)
    /\ UNCHANGED <<habits_log, clock>>

\* the button "Remover Hábito", then the run that st.rerun() starts
RemoveHabit(habit_to_delete, selected_habit) ==
    /\ habit_to_delete \in habits_config
    /\ LET after == DeleteHabit(habits_config, habits_log, habit_to_delete)
       IN  /\ habits_config' = after.config
           /\ habits_log' = after.docs
           \* with no habit left the selectbox is not drawn: its value is of no use
           /\ selected_habit \in after.config
                \/ (after.config = {} /\ selected_habit = habit_to_delete)
           /\ result' = Analysis(after.config, after.docs, selected_habit)
    /\ UNCHANGED clock

\* a checkbox of "Registro de Hoje" was clicked: is_done differs from the flag
\* stored for today, the flag is written, then the run that st.rerun() starts
ToggleHabit(habit, selected_habit) ==
    /\ habit \in habits_config
    /\ selected_habit \in habits_config
    /\ LET today_str == KeyOfDate[clock]
           today_log_data == IF today_str \in DOMAIN habits_log
                             THEN habits_log[today_str] ELSE EmptyDoc
           stored == IF habit \in DOMAIN today_log_data THEN today_log_data[habit] ELSE FALSE
           is_done == ~stored
       IN  /\ habits_log' = SetMerge(habits_log, today_str, habit, is_done)
           /\ result' = Analysis(habits_config, habits_log', selected_habit)
    /\ UNCHANGED <<habits_config, clock>>

\* a habit is chosen in "Selecione um hábito para analisar"
SelectHabit(selected_habit) ==
    /\ selected_habit \in habits_config
    /\ result' = Analysis(habits_config, habits_log, selected_habit)
    /\ UNCHANGED <<habits_config, habits_log, clock>>

\* midnight passes: datetime.now() gives the next day
Tick(last_day) ==
    /\ clock < last_day
    /\ clock' = clock + 1
    /\ UNCHANGED <<habits_config, habits_log, result>>

\* a call of calculate_streaks on the logs of the store
Calculate(habit_name) ==
    /\ result' = Call(get_all_logs(habits_log), habit_name, clock)
    /\ UNCHANGED <<habits_config, habits_log, clock>>

-----------------------------------------------------------------------------
(* Spec: the page, from an empty store *)

AppLastDay == FirstDay + MaxTicks

Init ==
    /\ habits_config = {}
    /\ habits_log = NoDocs
    /\ clock = FirstDay
    /\ result = NoCall

Next ==
    \/ \E h \in Habits, s \in Habits : AddHabit(h, s)
    \/ \E h \in Habits, s \in Habits : RemoveHabit(h, s)
    \/ \E h \in Habits, s \in Habits : ToggleHabit(h, s)
    \/ \E s \in Habits : SelectHabit(s)
    \/ Tick(AppLastDay)

Spec == Init /\ [][Next]_vars

(* SpecCalc: calculate_streaks on any stored log, at any date of the clock *)

\* the habit the stored logs of SpecCalc mention
Tracked == {"read"}

CalcLastDay == FirstDay + NumDays + 1

InitCalc ==
    /\ habits_config = Habits
    /\ habits_log \in LogsOver(Keys, Tracked)
    /\ clock \in FirstDay .. CalcLastDay
    /\ result = NoCall

NextCalc ==
    \/ \E h \in Habits : Calculate(h)
    \/ Tick(CalcLastDay)

SpecCalc == InitCalc /\ [][NextCalc]_vars

-----------------------------------------------------------------------------
(* What the claims speak of, stated without the code's loops *)

Called == result # NoCall

ReturnedPair == Called /\ result.outcome.exception = "none"

current_streak == result.outcome.value[1]

longest_streak == result.outcome.value[2]

\* the entries of the call's log whose record marks the call's habit true
MarkedEntries(call) ==
    {i \in 1 .. Len(call.habit_logs) :
        /\ call.habit_name \in DOMAIN call.habit_logs[i].data
        /\ call.habit_logs[i].data[call.habit_name] = TRUE}

\* the calendar days on which the call's habit is marked true
MarkedDays(call) ==
    {DateOfKey[call.habit_logs[i].date] :
        i \in {j \in MarkedEntries(call) : call.habit_logs[j].date \in ParsedKeys}}

\* the days from a to b are all marked
AllMarked(days, a, b) == \A d \in a .. b : d \in days

\* the greatest length of a run of consecutive marked days
MaxRunLength(days) ==
    IF days = {} THEN 0
    ELSE CHOOSE n \in 1 .. Cardinality(days) :
            /\ \E a \in days : AllMarked(days, a, a + n - 1)
            /\ \A a \in days : ~AllMarked(days, a, a + n)

\* the number of consecutive marked days counted backward from day d
RunBack(days, d) ==
    CHOOSE n \in 0 .. Cardinality(days) :
        AllMarked(days, d - n + 1, d) /\ d - n \notin days

\* the log of another iteration order
Permuted(habit_logs, p) == [i \in 1 .. Len(habit_logs) |-> habit_logs[p[i]]]

\* the log with the record of entry i replaced
WithData(habit_logs, i, data) ==
    [j \in 1 .. Len(habit_logs) |->
        IF j = i THEN [date |-> habit_logs[j].date, data |-> data] ELSE habit_logs[j]]

Without(data, habit) == [g \in DOMAIN data \ {habit} |-> data[g]]

WithFalse(data, habit) == [g \in DOMAIN data \cup {habit} |-> IF g = habit THEN FALSE ELSE data[g]]

-----------------------------------------------------------------------------
(* C1 *)

\* C1: whenever a call returns, longest_streak is the greatest length of a run
\* of consecutive calendar days on which the habit is marked true, whatever the
\* keys of the log and their order; marks on 1st, 2nd and 4th day give 2.
C1_LongestIsMaxRun ==
    ReturnedPair => longest_streak = MaxRunLength(MarkedDays(result))

\* a call on a log with marks on three days, the third after a gap of one day
C1_Witness ==
    /\ ReturnedPair
    /\ \E d \in WindowDays : MarkedDays(result) = {d, d + 1, d + 3}
    /\ longest_streak = 2

(* C2 *)

\* the run counted backward from today, else from yesterday, else nothing
RunEndingNow(days, today) ==
    IF today \in days THEN RunBack(days, today)
    ELSE IF today - 1 \in days THEN RunBack(days, today - 1)
    ELSE 0

\* C2: whenever a call returns, current_streak is the run counted backward from
\* today when today is marked, else the run counted backward from yesterday
\* when yesterday is marked, else 0.
C2_CurrentIsRunBack ==
    ReturnedPair => current_streak = RunEndingNow(MarkedDays(result), result.today)

\* a call on a day without a mark, after two marked days
C2_Witness ==
    /\ ReturnedPair
    /\ result.today \notin MarkedDays(result)
    /\ {result.today - 1, result.today - 2} \subseteq MarkedDays(result)
    /\ current_streak = 2

(* C3 *)

\* C3 as claimed: a call on a log that holds a date key strptime cannot parse
\* fails with ValueError.
C3_MalformedKeyRaises ==
    (Called /\ \E i \in 1 .. Len(result.habit_logs) : result.habit_logs[i].date \notin ParsedKeys)
        => result.outcome.exception = "ValueError"

\* C3 amended: a call fails with ValueError exactly when the log holds an entry
\* whose record marks the habit true and whose date key strptime cannot parse;
\* a malformed key of any other entry is never parsed, and the call returns.
C3_RaisesIffMarkedKeyMalformed ==
    Called =>
        (result.outcome.exception = "ValueError"
            <=> \E i \in MarkedEntries(result) : result.habit_logs[i].date \notin ParsedKeys)

\* a call that failed on the key 2024-02-30 of a marked entry
C3_Witness ==
    /\ Called
    /\ result.outcome.exception = "ValueError"
    /\ \E i \in MarkedEntries(result) : result.habit_logs[i].date = NoSuchDayKey

(* C4 *)

\* C4: a call with the same habit log and the same habit name as the call
\* before it has the same outcome, whatever happened between the two.
C4_SameInputsSameOutcome ==
    [][(/\ result # NoCall
        /\ result' # NoCall
        /\ result'.habit_logs = result.habit_logs
        /\ result'.habit_name = result.habit_name)
            => result'.outcome = result.outcome]_vars

(* C5 *)

\* C5: a call on a log that never marks the habit true returns (0, 0) and does
\* not fail, malformed keys or not; and for any log, dropping a false flag of
\* the habit from a record, or adding one where the habit is absent, leaves the
\* outcome unchanged.
C5_FalseIsAbsent ==
    Called =>
        LET logs == result.habit_logs
            h == result.habit_name
        IN  /\ MarkedEntries(result) = {} => result.outcome = Returned(0, 0)
            /\ \A i \in 1 .. Len(logs) :
                  IF h \in DOMAIN logs[i].data
                  THEN logs[i].data[h] = FALSE =>
                          calculate_streaks(WithData(logs, i, Without(logs[i].data, h)),
                                            h, result.today) = result.outcome
                  ELSE calculate_streaks(WithData(logs, i, WithFalse(logs[i].data, h)),
                                         h, result.today) = result.outcome

\* a call that returned (0, 0) on a log with a false flag under a malformed key
C5_Witness ==
    /\ Called
    /\ result.outcome = Returned(0, 0)
    /\ \E i \in 1 .. Len(result.habit_logs) :
          /\ result.habit_logs[i].date = NoSuchDayKey
          /\ result.habit_name \in DOMAIN result.habit_logs[i].data
          /\ result.habit_logs[i].data[result.habit_name] = FALSE

(* C6 *)

\* the marked days are two runs s1..e1 and s2..today with unmarked days between
TwoRuns(days, s1, e1, s2, today) ==
    /\ s1 <= e1 /\ e1 + 2 <= s2 /\ s2 <= today
    /\ days = (s1 .. e1) \cup (s2 .. today)

TwoRunsGive(days, today, value) ==
    \A s1 \in days, e1 \in days, s2 \in days :
        (TwoRuns(days, s1, e1, s2, today) /\ today - s2 + 1 < e1 - s1 + 1)
            => value = <<today - s2 + 1, e1 - s1 + 1>>

\* C6: when the marked days are two runs apart from each other, the later one
\* of length A ending today and the earlier one of length B > A, the call
\* returns current_streak = A and longest_streak = B.
C6_TwoRuns ==
    ReturnedPair => TwoRunsGive(MarkedDays(result), result.today, result.outcome.value)

\* a call on a run of two days, an unmarked day, and a mark today
C6_Witness ==
    /\ ReturnedPair
    /\ MarkedDays(result) = {result.today - 3, result.today - 2, result.today}
    /\ result.outcome.value = <<1, 2>>

(* C7 *)

\* the marked days are one run of n days that ends on day d
SingleRun(days, n, d) == n >= 1 /\ days = (d - n + 1) .. d

\* what a call returns for a single run that ended today or earlier
SingleRunGives(days, today, value) ==
    \A d \in days :
        (SingleRun(days, Cardinality(days), d) /\ today >= d) =>
            value = IF today <= d + 1
                    THEN <<Cardinality(days), Cardinality(days)>>
                    ELSE <<0, Cardinality(days)>>

\* the single run of the marked days ended on or before the day of the call
RunEnded(days, today) ==
    \E d \in days : SingleRun(days, Cardinality(days), d) /\ today >= d

GraceHolds(call) ==
    (call # NoCall /\ call.outcome.exception = "none") =>
        SingleRunGives(MarkedDays(call), call.today, call.outcome.value)

\* C7: for a log whose marks are one run of N days ending on day D, a call on
\* day D or D+1 returns (N, N) and a call on any later day returns (0, N); and
\* once a call has returned current_streak 0 on or after day D, a later call on
\* the same log returns current_streak 0 as well.
C7_GracePeriod ==
    [][result' # result =>
        /\ GraceHolds(result')
        /\ (/\ result # NoCall /\ result.outcome.exception = "none"
            /\ result'.habit_logs = result.habit_logs
            /\ result'.habit_name = result.habit_name
            /\ RunEnded(MarkedDays(result), result.today)
            /\ result.outcome.value[1] = 0)
                => result'.outcome.value[1] = 0]_vars

\* a call two days after the end of a run of two days
C7_Witness ==
    /\ ReturnedPair
    /\ MarkedDays(result) = {result.today - 3, result.today - 2}
    /\ result.outcome.value = <<0, 2>>

(* C8 *)

\* C8: the outcome of a call is the outcome of the call on every other
\* iteration order of the same entries.
C8_OrderIndependent ==
    Called =>
        \A p \in Permutations(1 .. Len(result.habit_logs)) :
            calculate_streaks(Permuted(result.habit_logs, p), result.habit_name,
                              result.today) = result.outcome

\* a call whose log lists a marked day before an earlier marked day, the days
\* not all consecutive
C8_Witness ==
    /\ ReturnedPair
    /\ \E i \in MarkedEntries(result), j \in MarkedEntries(result) :
          i < j /\ DateOfKey[result.habit_logs[i].date] > DateOfKey[result.habit_logs[j].date]
    /\ Cardinality(MarkedDays(result)) > longest_streak
    /\ longest_streak >= 2

(* C9 *)

\* the outcome calculate_streaks has for a habit on the stored logs
StreaksOf(docs, habit, today) == calculate_streaks(get_all_logs(docs), habit, today)

\* C9: a step that removes a habit removes it from habits_config and changes
\* no document of habits_log; and on one day, no step changes the outcome
\* calculate_streaks has for a habit that is removed, absent, or added again by
\* the step, so a habit added again has the outcome it had when it was removed.
C9_RemovalKeepsLogs ==
    [][\A h \in Habits :
        /\ (h \in habits_config /\ h \notin habits_config') =>
              (habits_log' = habits_log /\ habits_config' = habits_config \ {h})
        /\ ((h \notin habits_config \/ h \notin habits_config') /\ clock' = clock) =>
              StreaksOf(habits_log', h, clock') = StreaksOf(habits_log, h, clock)]_vars

\* a removed habit whose marks are still in the logs and give a streak
C9_Witness ==
    \E h \in Habits \ habits_config :
        /\ \E k \in DOMAIN habits_log : h \in DOMAIN habits_log[k] /\ habits_log[k][h]
        /\ StreaksOf(habits_log, h, clock).value[2] >= 1

(* C10 *)

\* every document id is a date, and no two are the same date
OneRecordPerDate(docs) ==
    /\ DOMAIN docs \subseteq ParsedKeys
    /\ \A a \in DOMAIN docs, b \in DOMAIN docs : DateOfKey[a] = DateOfKey[b] => a = b

\* C10: a step that changes habits_log is the toggle of one habit h of the
\* list: the document of today's date is created or updated, the flag of h in
\* it is inverted, every other flag of it and every other document is as
\* before, the outcome of calculate_streaks for every other habit is as before,
\* and no two documents are of the same calendar date.
C10_ToggleTouchesOneFlag ==
    [][habits_log' # habits_log =>
        /\ OneRecordPerDate(habits_log')
        /\ \E h \in habits_config :
            LET id == KeyOfDate[clock]
                old == IF id \in DOMAIN habits_log THEN habits_log[id] ELSE EmptyDoc
            IN  /\ DOMAIN habits_log' = DOMAIN habits_log \cup {id}
                /\ \A k \in DOMAIN habits_log \ {id} : habits_log'[k] = habits_log[k]
                /\ DOMAIN habits_log'[id] = DOMAIN old \cup {h}
                /\ \A g \in DOMAIN old \ {h} : habits_log'[id][g] = old[g]
                /\ habits_log'[id][h] = ~(h \in DOMAIN old /\ old[h])
                /\ \A g \in Habits \ {h} :
                      StreaksOf(habits_log', g, clock) = StreaksOf(habits_log, g, clock)]_vars

\* today's document holds a flag of each habit, after a document of the day
\* before
C10_Witness ==
    /\ clock > FirstDay
    /\ KeyOfDate[clock] \in DOMAIN habits_log
    /\ DOMAIN habits_log[KeyOfDate[clock]] = Habits
    /\ KeyOfDate[clock - 1] \in DOMAIN habits_log
    /\ \E g \in Habits : ~habits_log[KeyOfDate[clock]][g]

(* C11 *)

\* C11: whenever a call returns, on any log and any date of the clock, dates
\* of the log after today included, 0 <= current_streak <= longest_streak,
\* and longest_streak >= 1 exactly when the habit is marked true on some date.
C11_StreaksOrdered ==
    ReturnedPair =>
        /\ 0 <= current_streak
        /\ current_streak <= longest_streak
        /\ longest_streak >= 1 <=> MarkedDays(result) # {}

\* a call on a log with a mark after today, at the end of the longest run, and
\* a shorter current streak
C11_Witness ==
    /\ ReturnedPair
    /\ result.today + 1 \in MarkedDays(result)
    /\ current_streak >= 1
    /\ current_streak < longest_streak

====
